---------------------------- MODULE Spec2Model ----------------------------
(***************************************************************************)
(* A model of the Aerchain task API: the Task schema, the route handlers   *)
(* of the task router (list, board, view-task, create-task, update-task,   *)
(* delete-task, parse-voice-data, parse-voice) and the tasks collection.   *)
(*                                                                         *)
(* A string is a sequence of one-character strings, so that trim, case     *)
(* folding, substring, regular-expression matching, date parsing and date  *)
(* formatting are computed character by character.                         *)
(***************************************************************************)
EXTENDS Integers, Sequences, FiniteSets, TLC

(***************************************************************************)
(* Bounds of the model.                                                    *)
(***************************************************************************)
\* the number of documents the collection ever receives (_id 1..MaxId)
MaxId == 2
\* the largest page number a list or board request asks for
MaxPage == 2

(***************************************************************************)
(* JavaScript values and string primitives.                                *)
(***************************************************************************)
\* a field that is absent from the request (undefined); never a string of characters
Undefined == <<"undefined">>
\* null, as the extraction reply or the fallback sets a missing due date
Null == <<"null">>

Falsy(x) == x = Undefined \/ x = Null \/ x = <<>>

SetMax(S) == CHOOSE x \in S : \A y \in S : x >= y

UpperChars == <<"A","B","C","D","E","F","G","H","I","J","K","L","M",
                "N","O","P","Q","R","S","T","U","V","W","X","Y","Z">>
LowerChars == <<"a","b","c","d","e","f","g","h","i","j","k","l","m",
                "n","o","p","q","r","s","t","u","v","w","x","y","z">>

UpperSet == {UpperChars[i] : i \in 1..26}
LowerOf == [c \in UpperSet |-> LowerChars[CHOOSE i \in 1..26 : UpperChars[i] = c]]

\* String.prototype.toLowerCase on one character
LowerChar(c) == IF c \in UpperSet THEN LowerOf[c] ELSE c

ToLowerCase(s) == [i \in 1..Len(s) |-> LowerChar(s[i])]

IsSpace(c) == c \in {" ", "\t", "\n"}

\* whether s holds nothing but white space: s.trim() === ''
IsBlank(s) == \A i \in 1..Len(s) : IsSpace(s[i])

\* String.prototype.trim: s without its leading and its trailing white space
Trim(s) ==
    IF IsBlank(s) THEN <<>>
    ELSE LET n     == Len(s)
             lead  == CHOOSE k \in 0..(n - 1) :
                          ~IsSpace(s[k + 1]) /\ \A j \in 1..k : IsSpace(s[j])
             trail == CHOOSE k \in 0..(n - 1) :
                          ~IsSpace(s[n - k]) /\ \A j \in 0..(k - 1) : IsSpace(s[n - j])
         IN  SubSeq(s, lead + 1, n - trail)

\* String.prototype.substring(0, n)
Substring0(s, n) == SubSeq(s, 1, IF Len(s) < n THEN Len(s) ELSE n)

\* String.prototype.includes
Includes(s, w) ==
    \E i \in 0..(Len(s) - Len(w)) : \A k \in 1..Len(w) : s[i + k] = w[k]

\* n copies of the character c
Repeat(c, n) == [i \in 1..n |-> c]

(***************************************************************************)
(* Regular expressions with the i flag.  A pattern is the text the handler *)
(* pastes into the expression unescaped; over the characters of the model  *)
(* (letters, digits, space, "-", ".") the only metacharacter is ".", which *)
(* matches any one character.                                              *)
(***************************************************************************)
RegexCharMatch(p, c) == p = "." \/ LowerChar(p) = LowerChar(c)

\* { $regex: `^${pattern}$`, $options: 'i' }
RegexFullMatch(pattern, s) ==
    /\ Len(pattern) = Len(s)
    /\ \A i \in 1..Len(s) : RegexCharMatch(pattern[i], s[i])

\* { $regex: pattern, $options: 'i' }
RegexSearch(pattern, s) ==
    \E k \in 0..(Len(s) - Len(pattern)) :
        \A i \in 1..Len(pattern) : RegexCharMatch(pattern[i], s[k + i])

\* the text of a template literal `${x}`: an absent value renders as "undefined"
TemplateText(x) ==
    IF x = Undefined THEN <<"u","n","d","e","f","i","n","e","d">> ELSE x

(***************************************************************************)
(* Dates (moment).                                                         *)
(***************************************************************************)
DigitChars == <<"0","1","2","3","4","5","6","7","8","9">>

IsDigit(c) == \E i \in 1..10 : DigitChars[i] = c
DigitVal(c) == (CHOOSE i \in 1..10 : DigitChars[i] = c) - 1

\* the number written by the digits s[a..b]
RECURSIVE NumAt(_, _, _)
NumAt(s, a, b) ==
    IF b < a THEN 0 ELSE NumAt(s, a, b - 1) * 10 + DigitVal(s[b])

\* /^\d{2}-\d{2}-\d{4}$/.test(s)
IsDMYShape(s) ==
    /\ Len(s) = 10
    /\ s[3] = "-" /\ s[6] = "-"
    /\ \A i \in {1, 2, 4, 5, 7, 8, 9, 10} : IsDigit(s[i])

\* the ISO 8601 shape YYYY-MM-DD, the generic parse's recognised input
IsISOShape(s) ==
    /\ Len(s) = 10
    /\ s[5] = "-" /\ s[8] = "-"
    /\ \A i \in {1, 2, 3, 4, 6, 7, 9, 10} : IsDigit(s[i])

IsLeap(y) == (y % 4 = 0 /\ y % 100 # 0) \/ y % 400 = 0

DaysInMonth(y, m) ==
    IF m = 2 THEN (IF IsLeap(y) THEN 29 ELSE 28)
    ELSE IF m \in {4, 6, 9, 11} THEN 30 ELSE 31

InvalidDate == [valid |-> FALSE, y |-> 0, m |-> 0, d |-> 0]

MakeDate(y, m, d) ==
    IF m \in 1..12 /\ d >= 1 /\ d <= DaysInMonth(y, m)
    THEN [valid |-> TRUE, y |-> y, m |-> m, d |-> d]
    ELSE InvalidDate

\* moment(s, 'DD-MM-YYYY') on a string of that shape
MomentDMY(s) == MakeDate(NumAt(s, 7, 10), NumAt(s, 4, 5), NumAt(s, 1, 2))

\* moment(s): an ISO date, and otherwise no date
MomentGeneric(s) ==
    IF IsISOShape(s)
    THEN MakeDate(NumAt(s, 1, 4), NumAt(s, 6, 7), NumAt(s, 9, 10))
    ELSE InvalidDate

\* moment(s, 'DD-MM-YYYY', true): strict parsing
MomentStrictDMY(s) == IF IsDMYShape(s) THEN MomentDMY(s) ELSE InvalidDate

\* the handlers' choice between the two parses
ParseDueDate(s) == IF IsDMYShape(s) THEN MomentDMY(s) ELSE MomentGeneric(s)

\* moment(): the current day
Today == [valid |-> TRUE, y |-> 2026, m |-> 11, d |-> 3]

\* a.isBefore(b, 'day')
IsBeforeDay(a, b) ==
    \/ a.y < b.y
    \/ a.y = b.y /\ a.m < b.m
    \/ a.y = b.y /\ a.m = b.m /\ a.d < b.d

Pad2(n) == <<DigitChars[((n \div 10) % 10) + 1], DigitChars[(n % 10) + 1]>>
Pad4(n) == Pad2(n \div 100) \o Pad2(n % 100)

\* date.format('DD-MM-YYYY')
FormatDMY(date) == Pad2(date.d) \o <<"-">> \o Pad2(date.m) \o <<"-">> \o Pad4(date.y)

(***************************************************************************)
(* The Task schema.                                                        *)
(***************************************************************************)
TitleMinLength == 10
TitleMaxLength == 250
DescriptionMinLength == 10
DescriptionMaxLength == 500
TranscriptMinLength == 10
TranscriptMaxLength == 1000

ValidStatuses == {"To Do", "In Progress", "Done"}
ValidPriorities == {"Low", "Medium", "High", "Critical"}

\* status and priority are words of small enumerations and are kept as whole
\* words; Absent is such a field when the request does not carry it
Absent == "undefined"

NoError == "ok"

\* the message of the first path, in schema order, whose validators fail on save
SchemaError(doc) ==
    IF Falsy(doc.title) THEN "Title is required"
    ELSE IF Len(doc.title) < TitleMinLength THEN "Title must be at least 10 characters"
    ELSE IF Len(doc.title) > TitleMaxLength THEN "Title must not exceed 250 characters"
    ELSE IF Falsy(doc.description) THEN "Description is required"
    ELSE IF Len(doc.description) < DescriptionMinLength
         THEN "Description must be at least 10 characters"
    ELSE IF Len(doc.description) > DescriptionMaxLength
         THEN "Description must not exceed 500 characters"
    ELSE IF doc.status \notin ValidStatuses THEN "Status must be To Do, In Progress, or Done"
    ELSE IF doc.priority = Absent THEN "Priority is required"
    ELSE IF doc.priority \notin ValidPriorities
         THEN "Priority must be Low, Medium, High, or Critical"
    ELSE IF Falsy(doc.dueDate) THEN "Due date is required"
    ELSE IF doc.transcript # Undefined /\ Len(doc.transcript) < TranscriptMinLength
         THEN "Transcript must be at least 10 characters"
    ELSE IF doc.transcript # Undefined /\ Len(doc.transcript) > TranscriptMaxLength
         THEN "Transcript must not exceed 1000 characters"
    ELSE NoError

(***************************************************************************)
(* State.                                                                  *)
(***************************************************************************)
VARIABLES
    tasks,      \* the tasks collection: a set of documents, each with its _id
    nextId,     \* the _id the next new document receives
    creates,    \* per client, its create-task request between lookup and save
    board,      \* the board request between its per-status queries
    resp        \* the response the last step sent; none when it sent none

vars == <<tasks, nextId, creates, board, resp>>

Clients == {"c1", "c2"}

NoTask == [_id |-> 0]
NoBody == [none |-> TRUE]
NoPage == [none |-> TRUE]

\* res.status(status).json(...)
Response(op, status, message, task, data, pagination) ==
    [op |-> op, status |-> status, message |-> message, task |-> task,
     data |-> data, pagination |-> pagination]

Reply(op, status, message) == Response(op, status, message, NoTask, <<>>, NoPage)
NoResponse == Reply("none", 0, "")
ReplyTask(op, status, message, task) == Response(op, status, message, task, <<>>, NoPage)

\* Task.findById
FindById(store, id) ==
    IF \E t \in store : t._id = id THEN CHOOSE t \in store : t._id = id ELSE NoTask

\* Task.findOne({ _id: { $ne: exceptId }, title: /^title$/i, description: /^description$/i })
DuplicateExists(store, exceptId, title, description) ==
    \E t \in store :
        /\ t._id # exceptId
        /\ RegexFullMatch(TemplateText(title), t.title)
        /\ RegexFullMatch(TemplateText(description), t.description)

\* x?.trim()
OptTrim(x) == IF x = Undefined THEN Undefined ELSE Trim(x)

\* the due-date block of create-task and update-task
\* the date check with "today" rejected as well
DueDateCheck_RejectsToday(dueDate) ==
    LET parsed == ParseDueDate(dueDate)
    IN  IF ~parsed.valid THEN [error |-> "Invalid due date format", value |-> Undefined]
        ELSE IF ~IsBeforeDay(Today, parsed)
             THEN [error |-> "Due date must be in the future", value |-> Undefined]
        ELSE [error |-> NoError, value |-> FormatDMY(parsed)]

DueDateCheck(dueDate) ==
    LET parsed == ParseDueDate(dueDate)
    IN  IF ~parsed.valid THEN [error |-> "Invalid due date format", value |-> Undefined]
        ELSE IF IsBeforeDay(parsed, Today)
             THEN [error |-> "Due date must be in the future", value |-> Undefined]
        ELSE [error |-> NoError, value |-> FormatDMY(parsed)]

(***************************************************************************)
(* POST /create-task.  The handler awaits twice: the duplicate lookup      *)
(* (findOne) and the insert (save); other requests run between the two.    *)
(***************************************************************************)
Idle == [pc |-> "idle", body |-> NoBody]

InFlight == Cardinality({c \in Clients : creates[c].pc # "idle"})

\* status after the handler's own check and default
CreateStatus(status) ==
    IF status = Absent \/ status \notin ValidStatuses THEN "To Do" ELSE status

\* the transcript the handler stores
CreateTranscript(body) ==
    IF ~Falsy(body.transcript) /\ ~IsBlank(body.transcript)
    THEN Trim(body.transcript)
    ELSE Substring0(IF Falsy(body.description) THEN body.title ELSE body.description,
                    TranscriptMaxLength)

\* taskData with the title and the description stored as they were sent
CreateTaskData_Untrimmed(body, parsedDate, id) ==
    [_id |-> id,
     title |-> body.title,
     description |-> body.description,
     status |-> CreateStatus(body.status),
     priority |-> body.priority,
     dueDate |-> parsedDate,
     transcript |-> CreateTranscript(body)]

\* taskData, with the _id the new document receives
CreateTaskData(body, parsedDate, id) ==
    [_id |-> id,
     title |-> OptTrim(body.title),
     description |-> OptTrim(body.description),
     status |-> CreateStatus(body.status),
     priority |-> body.priority,
     dueDate |-> parsedDate,
     transcript |-> CreateTranscript(body)]

\* the lookup of create-task: the request is answered 400 or goes on to the save
CreateLookup(c, body) ==
    /\ creates[c].pc = "idle"
    /\ IF DuplicateExists(tasks, 0, OptTrim(body.title), OptTrim(body.description))
       THEN /\ resp' = Reply("create-task", 400,
                             "Task with same title and description already exists")
            /\ UNCHANGED creates
       ELSE /\ nextId + InFlight <= MaxId
            /\ creates' = [creates EXCEPT ![c] = [pc |-> "save", body |-> body]]
            /\ resp' = NoResponse
    /\ UNCHANGED <<tasks, nextId, board>>

\* what the rest of the handler answers and, when it saves, the document it inserts
CreateSaveResult(body, id) ==
    LET date == IF Falsy(body.dueDate)
                THEN [error |-> NoError, value |-> Undefined]
                ELSE DueDateCheck(body.dueDate)
        doc  == CreateTaskData(body, date.value, id)
    IN  IF date.error # NoError
        THEN [resp |-> Reply("create-task", 400, date.error), doc |-> NoTask]
        ELSE IF Falsy(body.description) /\ Falsy(body.title)
                /\ (Falsy(body.transcript) \/ IsBlank(body.transcript))
             THEN [resp |-> Reply("create-task", 500, "TypeError"), doc |-> NoTask]
        ELSE IF SchemaError(doc) # NoError
             THEN [resp |-> Reply("create-task", 400, SchemaError(doc)), doc |-> NoTask]
        ELSE [resp |-> ReplyTask("create-task", 200, "Task created successfully", doc),
              doc |-> doc]

\* a save that repeats the duplicate lookup in the same step as the insert
CreateSave_LooksAgain(c) ==
    /\ creates[c].pc = "save"
    /\ LET body == creates[c].body
           r    == CreateSaveResult(body, nextId)
       IN  IF DuplicateExists(tasks, 0, OptTrim(body.title), OptTrim(body.description))
           THEN /\ resp' = Reply("create-task", 400,
                                 "Task with same title and description already exists")
                /\ UNCHANGED <<tasks, nextId>>
           ELSE /\ resp' = r.resp
                /\ IF r.doc = NoTask
                   THEN UNCHANGED <<tasks, nextId>>
                   ELSE /\ tasks' = tasks \cup {r.doc}
                        /\ nextId' = nextId + 1
    /\ creates' = [creates EXCEPT ![c] = Idle]
    /\ UNCHANGED board

\* the remainder of create-task: validation, taskData, save and the response
CreateSave(c) ==
    /\ creates[c].pc = "save"
    /\ LET r == CreateSaveResult(creates[c].body, nextId)
       IN  /\ resp' = r.resp
           /\ IF r.doc = NoTask
              THEN UNCHANGED <<tasks, nextId>>
              ELSE /\ tasks' = tasks \cup {r.doc}
                   /\ nextId' = nextId + 1
    /\ creates' = [creates EXCEPT ![c] = Idle]
    /\ UNCHANGED board

(***************************************************************************)
(* Request ids: absent, not an ObjectId, or the ObjectId numbered n.       *)
(***************************************************************************)
NoId == [present |-> FALSE, valid |-> FALSE, n |-> 0]
BadId == [present |-> TRUE, valid |-> FALSE, n |-> 0]
Oid(n) == [present |-> TRUE, valid |-> TRUE, n |-> n]

\* the id checks shared by view-task, update-task and delete-task
IdError(id) ==
    IF ~id.present THEN "Task ID is required"
    ELSE IF ~id.valid THEN "Invalid task ID"
    ELSE NoError

(***************************************************************************)
(* PUT /update-task.                                                       *)
(***************************************************************************)
\* a || b on strings
OrElse(a, b) == IF Falsy(a) THEN b ELSE a

\* Object.assign(task, req.body): every field the body carries overwrites the task's
AssignBody(task, body, dueDate) ==
    [_id |-> task._id,
     title |-> IF body.title = Undefined THEN task.title ELSE body.title,
     description |-> IF body.description = Undefined THEN task.description
                     ELSE body.description,
     status |-> IF body.status = Absent THEN task.status ELSE body.status,
     priority |-> IF body.priority = Absent THEN task.priority ELSE body.priority,
     dueDate |-> IF dueDate = Undefined THEN task.dueDate ELSE dueDate,
     transcript |-> IF body.transcript = Undefined THEN task.transcript
                    ELSE body.transcript]

\* what update-task answers and, when it saves, the document it writes
UpdateResult(store, body) ==
    LET task == FindById(store, body._id.n)
        date == IF Falsy(body.dueDate)
                THEN [error |-> NoError, value |-> body.dueDate]
                ELSE DueDateCheck(body.dueDate)
        doc  == AssignBody(task, body, date.value)
    IN  IF IdError(body._id) # NoError
        THEN [resp |-> Reply("update-task", 400, IdError(body._id)), doc |-> NoTask]
        ELSE IF task = NoTask
             THEN [resp |-> Reply("update-task", 404, "Task not found"), doc |-> NoTask]
        ELSE IF (~Falsy(body.title) \/ ~Falsy(body.description))
                /\ DuplicateExists(store, task._id,
                                   Trim(OrElse(body.title, task.title)),
                                   Trim(OrElse(body.description, task.description)))
             THEN [resp |-> Reply("update-task", 400,
                                  "Task with same title and description already exists"),
                   doc |-> NoTask]
        ELSE IF date.error # NoError
             THEN [resp |-> Reply("update-task", 400, date.error), doc |-> NoTask]
        ELSE IF SchemaError(doc) # NoError
             THEN [resp |-> Reply("update-task", 400, SchemaError(doc)), doc |-> NoTask]
        ELSE [resp |-> ReplyTask("update-task", 200, "", doc), doc |-> doc]

\* an update that writes the assigned fields also when a later check refuses them
UpdateTask_WritesRefused(body) ==
    /\ LET r    == UpdateResult(tasks, body)
           task == FindById(tasks, body._id.n)
       IN  /\ resp' = r.resp
           /\ tasks' = IF IdError(body._id) # NoError \/ task = NoTask THEN tasks
                       ELSE {t \in tasks : t._id # task._id}
                            \cup {AssignBody(task, body, Undefined)}
    /\ UNCHANGED <<nextId, creates, board>>

UpdateTask(body) ==
    /\ LET r == UpdateResult(tasks, body)
       IN  /\ resp' = r.resp
           /\ tasks' = IF r.doc = NoTask THEN tasks
                       ELSE {t \in tasks : t._id # r.doc._id} \cup {r.doc}
    /\ UNCHANGED <<nextId, creates, board>>

(***************************************************************************)
(* DELETE /delete-task and GET /view-task.                                 *)
(***************************************************************************)
DeleteResult(store, id) ==
    IF IdError(id) # NoError THEN Reply("delete-task", 400, IdError(id))
    ELSE IF FindById(store, id.n) = NoTask THEN Reply("delete-task", 404, "Task not found")
    ELSE Reply("delete-task", 200, "Task deleted successfully")

DeleteTask(id) ==
    /\ resp' = DeleteResult(tasks, id)
    /\ tasks' = IF id.valid THEN {t \in tasks : t._id # id.n} ELSE tasks
    /\ UNCHANGED <<nextId, creates, board>>

ViewResult(store, id) ==
    IF IdError(id) # NoError THEN Reply("view-task", 400, IdError(id))
    ELSE IF FindById(store, id.n) = NoTask THEN Reply("view-task", 404, "Task not found")
    ELSE ReplyTask("view-task", 200, "", FindById(store, id.n))

ViewTask(id) ==
    /\ resp' = ViewResult(tasks, id)
    /\ UNCHANGED <<tasks, nextId, creates, board>>

(***************************************************************************)
(* The voice routes.  The extraction service is an opaque collaborator:    *)
(* a call either fails (the request to it, or JSON.parse of its reply,     *)
(* throws) or yields the parsed object.                                    *)
(***************************************************************************)
TranscriptLimit == 5000
FallbackTitleLength == 100
DataTitleLength == 100
VoiceTitleLength == 50

AiFailure == [ok |-> FALSE, title |-> Undefined, description |-> Undefined,
              priority |-> Absent, dueDate |-> Undefined]

NullText == <<"n","u","l","l">>

\* the transcript checks both voice routes start with
TranscriptError(transcript) ==
    IF Falsy(transcript) \/ IsBlank(transcript)
    THEN "Transcript is required"
    ELSE IF Len(transcript) > TranscriptLimit THEN "Transcript too long"
    ELSE NoError

\* the catch block: the local heuristic
FallbackFields(transcript) ==
    LET lower == ToLowerCase(transcript)
    IN  [title |-> Substring0(transcript, FallbackTitleLength),
         description |-> transcript,
         priority |-> IF Includes(lower, <<"c","r","i","t","i","c","a","l">>) THEN "Critical"
                      ELSE IF Includes(lower, <<"h","i","g","h">>) THEN "High"
                      ELSE IF Includes(lower, <<"l","o","w">>) THEN "Low"
                      ELSE "Medium",
         dueDate |-> Null]

\* the try block after JSON.parse: the reply's fields, validated and defaulted
ExtractedFields(transcript, parsed, titleLength) ==
    LET due  == IF ~Falsy(parsed.dueDate) /\ parsed.dueDate # NullText
                THEN parsed.dueDate ELSE Null
        date == MomentStrictDMY(due)
    IN  [title |-> IF Falsy(parsed.title) THEN Substring0(transcript, titleLength)
                   ELSE parsed.title,
         description |-> IF Falsy(parsed.description) THEN transcript
                         ELSE parsed.description,
         priority |-> IF parsed.priority \in ValidPriorities THEN parsed.priority
                      ELSE "Medium",
         dueDate |-> IF due = Null THEN Null
                     ELSE IF ~date.valid \/ IsBeforeDay(date, Today) THEN Null
                     ELSE due]

\* the fields a voice route works with, given the outcome of the extraction call
VoiceFields(transcript, ai, titleLength) ==
    IF ai.ok THEN ExtractedFields(transcript, ai, titleLength)
    ELSE FallbackFields(transcript)

\* POST /parse-voice-data
ParseVoiceDataResult(transcript, ai) ==
    IF TranscriptError(transcript) # NoError
    THEN Reply("parse-voice-data", 400, TranscriptError(transcript))
    ELSE ReplyTask("parse-voice-data", 200, "",
                   VoiceFields(transcript, ai, DataTitleLength))

ParseVoiceData(transcript, ai) ==
    /\ resp' = ParseVoiceDataResult(transcript, ai)
    /\ UNCHANGED <<tasks, nextId, creates, board>>

\* new Task({...}) of parse-voice
VoiceTaskData(transcript, fields, id) ==
    [_id |-> id,
     title |-> Trim(fields.title),
     description |-> Trim(fields.description),
     status |-> "To Do",
     priority |-> fields.priority,
     dueDate |-> fields.dueDate,
     transcript |-> Trim(transcript)]

\* POST /parse-voice: what it answers and, when it saves, the document it inserts
ParseVoiceResult(transcript, ai, id) ==
    LET doc == VoiceTaskData(transcript, VoiceFields(transcript, ai, VoiceTitleLength), id)
    IN  IF TranscriptError(transcript) # NoError
        THEN [resp |-> Reply("parse-voice", 400, TranscriptError(transcript)),
              doc |-> NoTask]
        ELSE IF SchemaError(doc) # NoError
             THEN [resp |-> Reply("parse-voice", 400, SchemaError(doc)), doc |-> NoTask]
        ELSE [resp |-> ReplyTask("parse-voice", 200, "Task created from voice input", doc),
              doc |-> doc]

ParseVoice(transcript, ai) ==
    /\ LET r == ParseVoiceResult(transcript, ai, nextId)
       IN  /\ r.doc # NoTask => nextId + InFlight <= MaxId
           /\ resp' = r.resp
           /\ IF r.doc = NoTask
              THEN UNCHANGED <<tasks, nextId>>
              ELSE /\ tasks' = tasks \cup {r.doc}
                   /\ nextId' = nextId + 1
    /\ UNCHANGED <<creates, board>>

(***************************************************************************)
(* GET / (the flat list) and GET /board.                                   *)
(***************************************************************************)
LimitMax == 100

\* Math.ceil(a / b) for b > 0
CeilDiv(a, b) == (a + b - 1) \div b

\* the $match stage; a board query carries no status of its own
Matches(t, q, status) ==
    /\ status = Absent \/ t.status = status
    /\ q.priority = Absent \/ t.priority = q.priority
    /\ \/ Falsy(q.search)
       \/ RegexSearch(q.search, t.title)
       \/ RegexSearch(q.search, t.description)
    /\ Falsy(q.dueDate) \/ t.dueDate = q.dueDate

Matching(store, q, status) == {t \in store : Matches(t, q, status)}

\* { $sort: { createdAt: -1 } }: the schema sets no createdAt, so every document
\* ties and the stage may hand the documents on in any order
SortOrders(S) ==
    {f \in [1..Cardinality(S) -> S] : \A i, j \in 1..Cardinality(S) : f[i] = f[j] => i = j}

\* { $skip: skip }, { $limit: limit }
SkipLimit(order, skip, limit) ==
    SubSeq(order, skip + 1, IF skip + limit < Len(order) THEN skip + limit ELSE Len(order))

\* the checks of the flat list with a limit of 100 refused as well
ListError_RejectsMaxLimit(q) ==
    IF q.status # Absent /\ q.status \notin ValidStatuses THEN "Invalid status value"
    ELSE IF q.priority # Absent /\ q.priority \notin ValidPriorities
         THEN "Invalid priority value"
    ELSE IF q.page < 1 \/ q.limit < 1 \/ q.limit >= LimitMax
         THEN "Invalid pagination parameters"
    ELSE NoError

\* the checks of the flat list before it queries
ListError(q) ==
    IF q.status # Absent /\ q.status \notin ValidStatuses THEN "Invalid status value"
    ELSE IF q.priority # Absent /\ q.priority \notin ValidPriorities
         THEN "Invalid priority value"
    ELSE IF q.page < 1 \/ q.limit < 1 \/ q.limit > LimitMax
         THEN "Invalid pagination parameters"
    ELSE NoError

\* the flat list's answer with hasNext true on the last page as well
ListResult_NextOnLastPage(q, order) ==
    LET total      == Len(order)
        totalPages == CeilDiv(total, q.limit)
    IN  Response("list", 200, "", NoTask,
                 SkipLimit(order, (q.page - 1) * q.limit, q.limit),
                 [currentPage |-> q.page,
                  totalPages |-> totalPages,
                  totalItems |-> total,
                  hasNext |-> q.page <= totalPages,
                  hasPrev |-> q.page > 1])

\* the flat list's answer when the sort hands the matching documents on as `order`
ListResult(q, order) ==
    LET total      == Len(order)
        totalPages == CeilDiv(total, q.limit)
    IN  Response("list", 200, "", NoTask,
                 SkipLimit(order, (q.page - 1) * q.limit, q.limit),
                 [currentPage |-> q.page,
                  totalPages |-> totalPages,
                  totalItems |-> total,
                  hasNext |-> q.page < totalPages,
                  hasPrev |-> q.page > 1])

ListTasks(q) ==
    /\ IF ListError(q) # NoError
       THEN resp' = Reply("list", 400, ListError(q))
       ELSE \E order \in SortOrders(Matching(tasks, q, q.status)) :
                resp' = ListResult(q, order)
    /\ UNCHANGED <<tasks, nextId, creates, board>>

Statuses == <<"To Do", "In Progress", "Done">>

NoQuery == [none |-> TRUE]

\* snap and clean are history: the collection the first query saw, and whether
\* every query of the request so far saw that same collection
BoardIdle == [pc |-> "idle", idx |-> 0, query |-> NoQuery, counts |-> <<>>,
              data |-> <<>>, hasMore |-> FALSE, snap |-> {}, clean |-> TRUE]

\* a count pipeline whose $match leaves the status out
BoardCounted_AnyStatus(b, q, idx, store) ==
    LET statusCount == Cardinality(Matching(store, q, Absent))
    IN  [b EXCEPT !.pc = "fetch", !.idx = idx, !.query = q,
                  !.counts = Append(b.counts, statusCount),
                  !.hasMore = b.hasMore \/ statusCount > q.page * q.limit]

\* the count pipeline of one status, and the hasMorePages test on its result
BoardCounted(b, q, idx, store) ==
    LET statusCount == Cardinality(Matching(store, q, Statuses[idx]))
    IN  [b EXCEPT !.pc = "fetch", !.idx = idx, !.query = q,
                  !.counts = Append(b.counts, statusCount),
                  !.hasMore = b.hasMore \/ statusCount > q.page * q.limit]

\* the board's answer with totalPages taken from the total of the three counts
BoardResult_GlobalPages(b) ==
    LET q == b.query
    IN  Response("board", 200, "", NoTask, b.data,
                 [currentPage |-> q.page,
                  totalPages |-> CeilDiv(b.counts[1] + b.counts[2] + b.counts[3], q.limit),
                  totalItems |-> b.counts[1] + b.counts[2] + b.counts[3],
                  hasNext |-> b.hasMore,
                  hasPrev |-> q.page > 1,
                  statusCounts |-> b.counts])

\* the board's answer, from the three counts and the three slices
BoardResult(b) ==
    LET q == b.query
    IN  Response("board", 200, "", NoTask, b.data,
                 [currentPage |-> q.page,
                  totalPages |-> SetMax({CeilDiv(b.counts[i], q.limit) : i \in 1..3}),
                  totalItems |-> b.counts[1] + b.counts[2] + b.counts[3],
                  hasNext |-> b.hasMore,
                  hasPrev |-> q.page > 1,
                  statusCounts |-> b.counts])

\* the board's priority check and the first status's count
BoardStart(q) ==
    /\ board.pc = "idle"
    /\ IF q.priority # Absent /\ q.priority \notin ValidPriorities
       THEN /\ resp' = Reply("board", 400, "Invalid priority value")
            /\ UNCHANGED board
       ELSE /\ board' = [BoardCounted(BoardIdle, q, 1, tasks) EXCEPT !.snap = tasks]
            /\ resp' = NoResponse
    /\ UNCHANGED <<tasks, nextId, creates>>

\* the count of the second and of the third status
BoardCount ==
    /\ board.pc = "count"
    /\ board' = [BoardCounted(board, board.query, board.idx, tasks)
                   EXCEPT !.clean = board.clean /\ tasks = board.snap]
    /\ resp' = NoResponse
    /\ UNCHANGED <<tasks, nextId, creates>>

\* the slice of one status; a negative $skip or a $limit below 1 makes aggregate
\* throw (500); after the third slice the handler answers
BoardFetch ==
    /\ board.pc = "fetch"
    /\ LET q    == board.query
           skip == (q.page - 1) * q.limit
       IN  IF skip < 0 \/ q.limit < 1
           THEN /\ resp' = Reply("board", 500, "MongoServerError")
                /\ board' = BoardIdle
           ELSE \E order \in SortOrders(Matching(tasks, q, Statuses[board.idx])) :
                    LET b == [board EXCEPT
                                !.data = board.data \o SkipLimit(order, skip, q.limit),
                                !.clean = board.clean /\ tasks = board.snap]
                    IN  IF board.idx = 3
                        THEN /\ resp' = BoardResult(b)
                             /\ board' = BoardIdle
                        ELSE /\ board' = [b EXCEPT !.pc = "count", !.idx = board.idx + 1]
                             /\ resp' = NoResponse
    /\ UNCHANGED <<tasks, nextId, creates>>

(***************************************************************************)
(* The requests the clients send.                                          *)
(***************************************************************************)
Review == <<"R","e","v","i","e","w">>
ReviewAbc == Review \o <<" ","a","b","c">>
ReviewAbcUpper == <<"R","E","V","I","E","W"," ","A","B","C">>
ReviewAbcPadded == <<" ">> \o ReviewAbc \o <<" ">>
ReviewDot == Review \o <<" ","a",".","c">>
DeployApp == <<"D","e","p","l","o","y"," ","a","p","p">>
DeployAppPadded == <<" ">> \o DeployApp \o <<" "," ">>
CheckFiles == <<"C","h","e","c","k"," ","f","i","l","e","s">>
CheckFilesPadded == <<" "," ">> \o CheckFiles \o <<" ">>
VoiceMemo == <<" ","v","o","i","c","e"," ","m","e","m","o"," ","1"," ">>
FixLoginBug == <<"F","i","x"," ","l","o","g","i","n"," ","b","u","g">>
FixTheLoginBug == <<"F","i","x"," ","t","h","e"," ","l","o","g","i","n"," ","b","u","g">>

Date2099 == <<"3","1","-","1","2","-","2","0","9","9">>
Date2099ISO == <<"2","0","9","9","-","1","2","-","3","1">>
DateMonth13 == <<"1","5","-","1","3","-","2","0","9","9">>
Date2000 == <<"0","1","-","0","1","-","2","0","0","0">>
DateToday == FormatDMY(Today)
DateWords == <<"t","o","m","o","r","r","o","w">>

BaseBody == [title |-> ReviewAbc, description |-> CheckFiles, status |-> Absent,
             priority |-> "High", dueDate |-> Date2099, transcript |-> Undefined]

DeployBody ==
    [title |-> DeployAppPadded, description |-> CheckFilesPadded,
     status |-> "In Progress", priority |-> "Low", dueDate |-> DateToday,
     transcript |-> VoiceMemo]

CreateBodies ==
    {BaseBody}
    \cup {[BaseBody EXCEPT !.title = t] : t \in {ReviewAbcUpper, ReviewDot, Review, Undefined}}
    \cup {[BaseBody EXCEPT !.status = "Blocked"]}
    \cup {[BaseBody EXCEPT !.priority = p] : p \in {Absent, "Urgent"}}
    \cup {[BaseBody EXCEPT !.title = Undefined, !.description = Undefined,
                           !.priority = Absent]}
    \cup {[BaseBody EXCEPT !.dueDate = d] :
             d \in {Date2099ISO, DateMonth13, Date2000, DateWords, Undefined}}
    \cup {[BaseBody EXCEPT !.transcript = <<" "," ">>]}
    \cup {DeployBody}

NoChange == [title |-> Undefined, description |-> Undefined, status |-> Absent,
             priority |-> Absent, dueDate |-> Undefined, transcript |-> Undefined]

UpdateChanges ==
    {NoChange}
    \cup {[NoChange EXCEPT !.title = t] : t \in {ReviewAbc, Review}}
    \cup {[NoChange EXCEPT !.dueDate = d] : d \in {DateMonth13, Date2000}}
    \cup {[NoChange EXCEPT !.title = ReviewAbcPadded, !.status = "Done",
                           !.dueDate = Date2099ISO]}
    \cup {[NoChange EXCEPT !.status = "Blocked"]}
    \cup {[NoChange EXCEPT !.priority = "Urgent"]}

IdInputs == {NoId, BadId} \cup {Oid(n) : n \in 1..MaxId}

\* an update-task body: the id and the changes
UpdateBody(id, change) ==
    [_id |-> id, title |-> change.title, description |-> change.description,
     status |-> change.status, priority |-> change.priority,
     dueDate |-> change.dueDate, transcript |-> change.transcript]

CriticalHighLow ==
    <<" ","C","r","i","t","i","c","a","l"," ","h","i","g","h"," ","l","o","w"," ">>
HighLow == <<"H","I","G","H"," ","l","o","w">>
LowWord == <<"l","o","w">>

Transcripts ==
    {CriticalHighLow, HighLow, LowWord, Repeat("a", TranscriptMinLength),
     <<" "," "," ">>, Undefined, Repeat("a", TranscriptLimit + 1)}

AiOutcomes ==
    {AiFailure,
     [ok |-> TRUE, title |-> FixLoginBug, description |-> FixTheLoginBug,
      priority |-> "High", dueDate |-> Date2099],
     [ok |-> TRUE, title |-> FixLoginBug, description |-> FixTheLoginBug,
      priority |-> "High", dueDate |-> Null],
     [ok |-> TRUE, title |-> FixLoginBug, description |-> Undefined,
      priority |-> "Urgent", dueDate |-> Date2000]}

\* every transcript with the extraction call failing, and two with each of its replies
VoiceCalls ==
    {<<t, AiFailure>> : t \in Transcripts}
    \cup {<<t, ai>> : t \in {CriticalHighLow, LowWord}, ai \in AiOutcomes}

NoFilter == [status |-> Absent, priority |-> Absent, search |-> Undefined,
             dueDate |-> Undefined]

Filters ==
    {NoFilter}
    \cup {[NoFilter EXCEPT !.status = x] : x \in {"To Do", "Archived"}}
    \cup {[NoFilter EXCEPT !.priority = x] : x \in {"High", "Urgent"}}
    \cup {[NoFilter EXCEPT !.search = <<"A","B","C">>]}
    \cup {[NoFilter EXCEPT !.dueDate = Date2099]}

Pages == 0..MaxPage
Limits == {0, 1, 2, LimitMax + 1}

Query(f, page, limit) ==
    [status |-> f.status, priority |-> f.priority, search |-> f.search,
     dueDate |-> f.dueDate, page |-> page, limit |-> limit]

\* every page and limit without a filter, and every filter on the first page
ListQueries ==
    {Query(NoFilter, page, limit) : page \in Pages, limit \in Limits}
    \cup {Query(NoFilter, 1, LimitMax)}
    \cup {Query(f, 1, 1) : f \in Filters}
    \cup {Query([NoFilter EXCEPT !.status = "Archived"], 0, 1),
          Query([NoFilter EXCEPT !.priority = "Urgent"], 1, LimitMax + 1)}

BoardQueries == {q \in ListQueries : q.status = Absent}

\* the requests of the interleaved runs
RaceBodies ==
    {BaseBody, [BaseBody EXCEPT !.title = ReviewAbcUpper],
     [BaseBody EXCEPT !.dueDate = Date2000], DeployBody}
RaceIds == {Oid(n) : n \in 1..MaxId}
RaceChanges == {[NoChange EXCEPT !.status = "Done"]}
RaceQueries == {Query(NoFilter, 1, 1), Query([NoFilter EXCEPT !.priority = "High"], 1, 2)}

(***************************************************************************)
(* The specifications.                                                     *)
(***************************************************************************)
Init ==
    /\ tasks = {}
    /\ nextId = 1
    /\ creates = [c \in Clients |-> Idle]
    /\ board = BoardIdle
    /\ resp = NoResponse

\* no request is between two of its steps
Quiet == board.pc = "idle" /\ \A c \in Clients : creates[c].pc = "idle"

CreateTaskLookup(bodies) == \E c \in Clients, body \in bodies : CreateLookup(c, body)
CreateTaskSave == \E c \in Clients : CreateSave(c)
UpdateTaskRequest(ids, changes) ==
    \E id \in ids, change \in changes : UpdateTask(UpdateBody(id, change))
DeleteTaskRequest(ids) == \E id \in ids : DeleteTask(id)
ViewTaskRequest(ids) == \E id \in ids : ViewTask(id)
ParseVoiceDataRequest(calls) == \E call \in calls : ParseVoiceData(call[1], call[2])
ParseVoiceRequest(calls) == \E call \in calls : ParseVoice(call[1], call[2])
ListRequest(queries) == \E q \in queries : ListTasks(q)
BoardRequest(queries) == \E q \in queries : BoardStart(q)

\* the requests are handled one at a time: a request starts when none is under way
SeqNext ==
    \/ Quiet /\ CreateTaskLookup(CreateBodies)
    \/ Quiet /\ UpdateTaskRequest(IdInputs, UpdateChanges)
    \/ Quiet /\ DeleteTaskRequest(IdInputs)
    \/ Quiet /\ ViewTaskRequest(IdInputs)
    \/ Quiet /\ ParseVoiceDataRequest(VoiceCalls)
    \/ Quiet /\ ParseVoiceRequest(VoiceCalls)
    \/ Quiet /\ ListRequest(ListQueries)
    \/ Quiet /\ BoardRequest(BoardQueries)
    \/ CreateTaskSave
    \/ BoardCount
    \/ BoardFetch

SeqSpec == Init /\ [][SeqNext]_vars

\* the requests interleave at their awaits
Next ==
    \/ CreateTaskLookup(RaceBodies)
    \/ CreateTaskSave
    \/ UpdateTaskRequest(RaceIds, RaceChanges)
    \/ DeleteTaskRequest(RaceIds)
    \/ BoardRequest(RaceQueries)
    \/ BoardCount
    \/ BoardFetch

Spec == Init /\ [][Next]_vars

(***************************************************************************)
(* The claims.                                                             *)
(***************************************************************************)
DuplicateMessage == "Task with same title and description already exists"

\* equality of two texts under case-insensitive comparison
SameText(a, b) == ToLowerCase(a) = ToLowerCase(b)

\* two stored tasks whose (title, description) pairs are equal under
\* case-insensitive comparison
DuplicatePair(a, b) ==
    /\ a._id # b._id
    /\ SameText(a.title, b.title)
    /\ SameText(a.description, b.description)

\* a stored task other than exceptId carries the pair (title, description),
\* compared case-insensitively
PairTaken(store, exceptId, title, description) ==
    \E t \in store :
        /\ t._id # exceptId
        /\ SameText(title, t.title)
        /\ SameText(description, t.description)

\* C1: with the requests handled one at a time, no two stored tasks have
\* (title, description) pairs that are equal under case-insensitive comparison.
C1_NoDuplicatePairs == \A a, b \in tasks : ~DuplicatePair(a, b)

\* the step is the save of client c's create-task request
IsCreateSave(c) == creates[c].pc = "save" /\ creates'[c].pc = "idle"

\* C2: the lookup and the insert of create-task are separate steps without a lock:
\* a request that passed its lookup is never answered DuplicateTask afterwards, and
\* its save inserts the document whenever it answers 200, also when the collection
\* by then holds the same pair, so that two requests with the same pair are both stored.
C2_SaveDoesNotLookAgain ==
    [][\A c \in Clients :
          IsCreateSave(c) =>
              /\ resp'.message # DuplicateMessage
              /\ resp'.status = 200 <=>
                    (resp'.task \notin tasks /\ tasks' = tasks \cup {resp'.task})
              /\ resp'.status # 200 => tasks' = tasks]_vars

\* two create-task requests with the same pair were both stored
C2_BothStored ==
    /\ resp.op = "create-task" /\ resp.status = 200
    /\ \E a \in tasks : DuplicatePair(a, resp.task)

\* C3: create-task and update-task answer 400 DuplicateTask exactly when the
\* resulting trimmed (title, description) pair equals, case-insensitively, the
\* pair of another stored task; an update is not compared with the task it updates.
C3_DuplicateExactly ==
    [][/\ \A c \in Clients, body \in CreateBodies :
             (resp'.op \in {"create-task", "none"} /\ CreateLookup(c, body)) =>
                 (resp'.message = DuplicateMessage <=>
                     PairTaken(tasks, 0, OptTrim(body.title), OptTrim(body.description)))
       /\ \A n \in 1..MaxId, change \in UpdateChanges :
             (/\ resp'.op = "update-task"
              /\ FindById(tasks, n) # NoTask
              /\ UpdateTask(UpdateBody(Oid(n), change))) =>
                 (resp'.message = DuplicateMessage <=>
                     PairTaken(tasks, n,
                               Trim(OrElse(change.title, FindById(tasks, n).title)),
                               Trim(OrElse(change.description,
                                           FindById(tasks, n).description))))]_vars

\* the record view-task returns for a created payload: title and description
\* trimmed, dueDate as DD-MM-YYYY, status "To Do" when none was given
RoundTripRecord(body, id, transcript) ==
    [_id |-> id,
     title |-> Trim(body.title),
     description |-> Trim(body.description),
     status |-> IF body.status = Absent THEN "To Do" ELSE body.status,
     priority |-> body.priority,
     dueDate |-> FormatDMY(ParseDueDate(body.dueDate)),
     transcript |-> transcript]

\* the step stores client c's payload, whose status is absent or one of the enumeration
StoresPayload(c) ==
    /\ IsCreateSave(c)
    /\ resp'.status = 200
    /\ creates[c].body.status \in ValidStatuses \cup {Absent}

ParsesUnderNeither(dueDate) ==
    /\ ~(IsDMYShape(dueDate) /\ MomentDMY(dueDate).valid)
    /\ ~MomentGeneric(dueDate).valid

DateMessages == {"Invalid due date format", "Due date must be in the future"}

\* what C5 states of a request that reached the date check with dueDate supplied
DateOutcome(dueDate, op) ==
    IF ParsesUnderNeither(dueDate)
    THEN resp' = Reply(op, 400, "Invalid due date format")
    ELSE IF IsBeforeDay(ParseDueDate(dueDate), Today)
         THEN resp' = Reply(op, 400, "Due date must be in the future")
    ELSE /\ resp'.message \notin DateMessages
         /\ resp'.status = 200 =>
               /\ resp'.task \in tasks'
               /\ resp'.task.dueDate = FormatDMY(ParseDueDate(dueDate))
               /\ IsDMYShape(resp'.task.dueDate)

\* C5: in create-task and update-task a supplied dueDate that parses under neither
\* DD-MM-YYYY nor the generic parse is answered 400 "Invalid due date format", one
\* strictly before the current day 400 "Due date must be in the future", and one of
\* today or later passes and is stored re-rendered as DD-MM-YYYY.
C5_DueDate ==
    [][/\ \A c \in Clients :
             (IsCreateSave(c) /\ ~Falsy(creates[c].body.dueDate)) =>
                 DateOutcome(creates[c].body.dueDate, "create-task")
       /\ \A n \in 1..MaxId, change \in UpdateChanges :
             (/\ resp'.op = "update-task"
              /\ resp'.status # 404
              /\ resp'.message # DuplicateMessage
              /\ ~Falsy(change.dueDate)
              /\ UpdateTask(UpdateBody(Oid(n), change))) =>
                 DateOutcome(change.dueDate, "update-task")]_vars

\* a task due today was stored, an ISO date was stored as DD-MM-YYYY by an
\* update, and the last request was refused for its date
C5_DatesSeen ==
    /\ \E t \in tasks : t.dueDate = DateToday
    /\ \E t \in tasks : t.status = "Done" /\ t.dueDate = Date2099
    /\ resp.status = 400 /\ resp.message \in DateMessages

\* a transcript of 1 to 5000 characters that is not only whitespace
TranscriptInRange(transcript) ==
    /\ transcript # Undefined
    /\ Len(transcript) >= 1
    /\ ~IsBlank(transcript)
    /\ Len(transcript) <= TranscriptLimit

\* C6: parse-voice accepts every transcript that is non-empty and at most 5000
\* characters long and stores exactly one new task for it, with status "To Do" and
\* the submitted transcript verbatim; only an empty, blank or longer transcript is
\* refused, with one of the transcript messages.
C6_TranscriptStoredVerbatim ==
    [][\A call \in VoiceCalls :
          (resp'.op = "parse-voice" /\ ParseVoice(call[1], call[2])) =>
              IF TranscriptInRange(call[1])
              THEN /\ resp'.status = 200
                   /\ resp'.task \notin tasks
                   /\ tasks' = tasks \cup {resp'.task}
                   /\ resp'.task.status = "To Do"
                   /\ resp'.task.transcript = call[1]
              ELSE /\ resp'.status = 400
                   /\ resp'.message \in {"Transcript is required", "Transcript too long"}
                   /\ tasks' = tasks]_vars

\* priority = first match of critical > high > low in the lowercased transcript
HeuristicPriority(transcript) ==
    LET lower == ToLowerCase(transcript)
    IN  IF Includes(lower, <<"c","r","i","t","i","c","a","l">>) THEN "Critical"
        ELSE IF Includes(lower, <<"h","i","g","h">>) THEN "High"
        ELSE IF Includes(lower, <<"l","o","w">>) THEN "Low"
        ELSE "Medium"

\* C7: on both voice routes, when the extraction call fails the handler uses the
\* local heuristic (title = first 100 characters of the transcript, description =
\* the transcript, priority = first of critical, high, low found in the lowercased
\* transcript, else Medium, no dueDate) and the request is never answered with an error.
C7_FallbackNeverErrors ==
    [][\A transcript \in Transcripts :
          TranscriptError(transcript) = NoError =>
              /\ (resp'.op = "parse-voice-data" /\ ParseVoiceData(transcript, AiFailure)) =>
                    /\ resp'.status = 200
                    /\ resp'.task.title = Substring0(transcript, FallbackTitleLength)
                    /\ resp'.task.description = transcript
                    /\ resp'.task.priority = HeuristicPriority(transcript)
                    /\ resp'.task.dueDate = Null
              /\ (resp'.op = "parse-voice" /\ ParseVoice(transcript, AiFailure)) =>
                    /\ resp'.status = 200
                    /\ resp'.task.priority = HeuristicPriority(transcript)]_vars

\* k = ceil(n / l)
IsCeil(k, n, l) == k * l >= n /\ (k - 1) * l < n

\* what C8 states of the flat list's answer to query q over n matching tasks,
\* for the collections with at least `least` matching tasks
PageOutcome(q, n, least) ==
    /\ (n >= least /\ IsCeil(q.page, n, q.limit)) =>
          /\ resp'.status = 200
          /\ Len(resp'.data) = (IF n % q.limit = 0 THEN q.limit ELSE n % q.limit)
          /\ ~resp'.pagination.hasNext
    /\ (q.page = 1 /\ n > q.limit) =>
          /\ resp'.status = 200
          /\ Len(resp'.data) = q.limit
          /\ resp'.pagination.hasNext
    /\ resp'.status = 200 =>
          /\ resp'.pagination.totalItems = n
          /\ IsCeil(resp'.pagination.totalPages, n, q.limit)
          /\ resp'.pagination.hasPrev = (q.page > 1)

\* the step answers the flat list query q, whose filters and limit are valid
AnswersList(q) ==
    /\ resp'.op = "list"
    /\ q.status \in ValidStatuses \cup {Absent}
    /\ q.priority \in ValidPriorities \cup {Absent}
    /\ q.limit \in 1..LimitMax
    /\ ListTasks(q)

\* C8 as stated: for N matching tasks and a valid limit L, page ceil(N/L) holds
\* N mod L tasks (L when N is a multiple of L) and has hasNext = false, for every N.
C8_LastPageForEveryN ==
    [][\A q \in ListQueries :
          AnswersList(q) =>
              PageOutcome(q, Cardinality(Matching(tasks, q, q.status)), 0)]_vars

\* C8: for N >= 1 matching tasks and a valid limit L, page ceil(N/L) holds N mod L
\* tasks (L when N is a multiple of L) and has hasNext = false; page 1 with N > L
\* holds L tasks and has hasNext = true; every answer has totalItems = N,
\* totalPages = ceil(N/L) and hasPrev = (page > 1).
C8_Pagination ==
    [][\A q \in ListQueries :
          AnswersList(q) =>
              PageOutcome(q, Cardinality(Matching(tasks, q, q.status)), 1)]_vars

\* the second of two pages of one task each was answered
C8_LastPageSeen ==
    /\ resp.op = "list" /\ resp.status = 200
    /\ resp.pagination.currentPage = 2 /\ resp.pagination.totalPages = 2
    /\ resp.pagination.totalItems = 2 /\ Len(resp.data) = 1
    /\ ~resp.pagination.hasNext /\ resp.pagination.hasPrev

\* the step is the board's answer after its third slice
IsBoardAnswer ==
    /\ board.pc = "fetch" /\ board.idx = 3
    /\ resp'.op = "board" /\ resp'.status = 200

SumOfCounts(pagination) ==
    pagination.statusCounts[1] + pagination.statusCounts[2] + pagination.statusCounts[3]

\* C9 as stated: in every board response the sum of the three statusCounts, reported
\* as totalItems, equals the number of stored tasks matching the non-status filters,
\* also when writes are interleaved between the per-status queries.
C9_SumUnderInterleaving ==
    [][IsBoardAnswer =>
          /\ SumOfCounts(resp'.pagination) = resp'.pagination.totalItems
          /\ resp'.pagination.totalItems =
                Cardinality(Matching(tasks, board.query, Absent))]_vars

\* C9: in every board response totalItems is the sum of the three statusCounts, and
\* when no write changed the collection between the request's queries that sum
\* equals the number of stored tasks matching the non-status filters.
C9_SumOfCounts ==
    [][IsBoardAnswer =>
          /\ SumOfCounts(resp'.pagination) = resp'.pagination.totalItems
          /\ (board.clean /\ tasks = board.snap) =>
                resp'.pagination.totalItems =
                    Cardinality(Matching(tasks, board.query, Absent))]_vars

\* a board request whose six queries all saw the same two tasks, one of them
\* "Done", is about to answer
C9_UndisturbedBoard ==
    /\ board.pc = "fetch" /\ board.idx = 3
    /\ board.clean /\ tasks = board.snap
    /\ Cardinality(tasks) = 2
    /\ board.counts[1] + board.counts[2] + board.counts[3] = 2
    /\ board.counts[3] = 1

\* C10: every stored task's title and description carry no leading or trailing
\* whitespace.
C10_StoredTrimmed ==
    \A t \in tasks : Trim(t.title) = t.title /\ Trim(t.description) = t.description

\* the step answers an update-task request for the stored task n with `change`
AnswersUpdate(n, change) ==
    /\ resp'.op = "update-task"
    /\ FindById(tasks, n) # NoTask
    /\ UpdateTask(UpdateBody(Oid(n), change))

\* C11: every stored task has status in {To Do, In Progress, Done} and priority in
\* {Low, Medium, High, Critical}; a write with a missing or non-enumerated priority
\* is rejected with 400, and a create-task with an absent or non-enumerated status
\* is not rejected for it but stored with status "To Do".
C11_Enumerations ==
    [][/\ \A t \in tasks' :
             t.status \in ValidStatuses /\ t.priority \in ValidPriorities
       /\ \A c \in Clients :
             IsCreateSave(c) =>
                 /\ creates[c].body.priority \notin ValidPriorities =>
                       resp'.status = 400 /\ tasks' = tasks
                 /\ (resp'.status = 200
                     /\ creates[c].body.status \notin ValidStatuses) =>
                       resp'.task.status = "To Do" /\ resp'.task \in tasks'
                 /\ resp'.message # "Status must be To Do, In Progress, or Done"
       /\ \A n \in 1..MaxId, change \in UpdateChanges :
             (AnswersUpdate(n, change)
              /\ change.priority # Absent
              /\ change.priority \notin ValidPriorities) =>
                 resp'.status = 400 /\ tasks' = tasks]_vars

\* page < 1, limit < 1 or limit > 100
PaginationInvalid(q) == q.page < 1 \/ q.limit < 1 \/ q.limit > LimitMax

\* the step answers 400 "Invalid pagination parameters"
AnswersInvalidPagination ==
    resp'.status = 400 /\ resp'.message = "Invalid pagination parameters"

\* the status and priority filters of q pass the checks that precede the
\* pagination check
FiltersPass(q) ==
    /\ q.status \in ValidStatuses \cup {Absent}
    /\ q.priority \in ValidPriorities \cup {Absent}

\* C12 as stated: the flat list answers 400 "Invalid pagination parameters" exactly
\* when page < 1, limit < 1 or limit > 100, whatever the rest of the request.
C12_ForEveryRequest ==
    [][\A q \in ListQueries :
          (resp'.op = "list" /\ ListTasks(q)) =>
              (AnswersInvalidPagination <=> PaginationInvalid(q))]_vars

\* C12: a flat list request whose status and priority filters are valid is answered
\* 400 "Invalid pagination parameters", with no data and the collection untouched,
\* exactly when page < 1, limit < 1 or limit > 100, and is otherwise answered 200; a
\* request with an invalid status or priority filter is answered for that filter.
C12_InvalidPagination ==
    [][\A q \in ListQueries :
          (resp'.op = "list" /\ ListTasks(q)) =>
              IF FiltersPass(q)
              THEN /\ AnswersInvalidPagination <=> PaginationInvalid(q)
                   /\ PaginationInvalid(q) =>
                         /\ resp' = Reply("list", 400, "Invalid pagination parameters")
                         /\ tasks' = tasks
                   /\ ~PaginationInvalid(q) => resp'.status = 200
              ELSE /\ resp'.status = 400
                   /\ resp'.message \in {"Invalid status value", "Invalid priority value"}]_vars

\* with two tasks stored, a flat list request was refused for its pagination
C12_Refused ==
    /\ resp = Reply("list", 400, "Invalid pagination parameters")
    /\ Cardinality(tasks) = 2

\* the number of stored tasks in bucket i that match the board query q
BucketSize(q, i) == Cardinality(Matching(tasks, q, Statuses[i]))

\* the position of a status among the buckets
BucketOf(status) == CHOOSE i \in 1..3 : Statuses[i] = status

\* the number of tasks of bucket i in data
InData(data, i) == Cardinality({k \in 1..Len(data) : data[k].status = Statuses[i]})

\* C13: in a board response hasNext is true exactly when some status bucket has
\* more than page * limit matching tasks, totalPages is the largest ceil(count / limit)
\* of the three buckets, so that hasNext is the same as currentPage < totalPages, and
\* data holds at most limit tasks of each bucket, the buckets in the order To Do,
\* In Progress, Done.
C13_BoardPages ==
    [][IsBoardAnswer =>
          LET q == board.query
              p == resp'.pagination
              data == resp'.data
          IN  /\ p.hasNext <=> \E i \in 1..3 : BucketSize(q, i) > q.page * q.limit
              /\ \A i \in 1..3 : p.totalPages * q.limit >= BucketSize(q, i)
              /\ \E i \in 1..3 : IsCeil(p.totalPages, BucketSize(q, i), q.limit)
              /\ p.hasNext <=> p.currentPage < p.totalPages
              /\ p.currentPage = q.page
              /\ \A i \in 1..3 : InData(data, i) <= q.limit
              /\ \A j, k \in 1..Len(data) :
                    j < k => BucketOf(data[j].status) <= BucketOf(data[k].status)
              /\ \A k \in 1..Len(data) : Matches(data[k], q, data[k].status)]_vars

\* a first page of one task was answered while a bucket holds two: hasNext is true
\* and there are two pages
C13_MorePages ==
    /\ resp.op = "board" /\ resp.status = 200
    /\ resp.pagination.currentPage = 1 /\ resp.pagination.totalPages = 2
    /\ resp.pagination.hasNext
    /\ Len(resp.data) = 1
    /\ \E i \in 1..3 : resp.pagination.statusCounts[i] = 2

\* C14: a create-task, update-task or delete-task request that is answered with 400
\* or 404 leaves the set of stored tasks, and so every stored field, unchanged.
C14_RefusedWritesChangeNothing ==
    [][(/\ resp'.op \in {"create-task", "update-task", "delete-task"}
        /\ resp'.status \in {400, 404}) =>
           tasks' = tasks /\ nextId' = nextId]_vars

\* with two tasks stored, an update-task was refused by the schema for its status
C14_RefusedUpdate ==
    /\ resp = Reply("update-task", 400, "Status must be To Do, In Progress, or Done")
    /\ Cardinality(tasks) = 2

=============================================================================
